---- MODULE Spec2Model ----
(***************************************************************************)
(* Model of the pytask VS Code extension's task discovery.                 *)
(*                                                                         *)
(* PyTaskProvider.findTaskFunctions(filePath, content) is modelled as a    *)
(* state machine: the import pre-scan, then one step per line of the       *)
(* content, then the sort.  Text is modelled character by character: a     *)
(* string is a sequence of one-character strings, and the regular          *)
(* expressions and String methods of the source are operators on such      *)
(* sequences.                                                              *)
(***************************************************************************)
EXTENDS Integers, Sequences, FiniteSets, TLC

(***************************************************************************)
(* Bounds of the model.                                                    *)
(***************************************************************************)
\* A scanned file has between 1 and MaxLines lines.
MaxLines == 4

\* The largest number of names in the list of a from-import.
MaxNames == 3

\* The largest number of files on disk at one time.
MaxFiles == 3

\* The largest number of file-system changes in one behaviour.
MaxChanges == 2

\* The largest number of root queries the host issues in one behaviour.
MaxQueries == 2

\* The largest number of pytask.refresh commands in one behaviour.
MaxCommands == 1

(***************************************************************************)
(* Characters and the String methods the source uses.                      *)
(***************************************************************************)
\* JavaScript's \s, restricted to the characters that occur in source text.
Whitespace == {" ", "\t", "\n", "\r"}

\* The characters a line cannot contain once the content is split on "\n".
LineBreak == {"\n"}

\* JavaScript's line terminators, where $ matches under the m flag.
LineTerminators == {"\n", "\r"}

LowerCase ==
  {"a","b","c","d","e","f","g","h","i","j","k","l","m",
   "n","o","p","q","r","s","t","u","v","w","x","y","z"}

UpperCase ==
  {"A","B","C","D","E","F","G","H","I","J","K","L","M",
   "N","O","P","Q","R","S","T","U","V","W","X","Y","Z"}

Digits == {"0","1","2","3","4","5","6","7","8","9"}

\* JavaScript's \w.
WordChars == LowerCase \cup UpperCase \cup Digits \cup {"_"}

\* The literals of the source.
LitFrom == <<"f","r","o","m">>
LitPytask == <<"p","y","t","a","s","k">>
LitImport == <<"i","m","p","o","r","t">>
LitTask == <<"t","a","s","k">>
LitAs == <<"a","s">>
LitDef == <<"d","e","f">>
LitAt == <<"@">>
LitDotTask == <<".","t","a","s","k">>
LitTaskPrefix == <<"t","a","s","k","_">>

\* s has the literal lit at position p.
StartsWithAt(s, p, lit) ==
  /\ p >= 1
  /\ p + Len(lit) - 1 <= Len(s)
  /\ \A k \in 1..Len(lit) : s[p + k - 1] = lit[k]

\* String.prototype.startsWith
startsWith(s, lit) == StartsWithAt(s, 1, lit)

\* The first position at or after p whose character is not in set
\* (Len(s) + 1 when there is none): a greedy X* of the regular expressions.
RECURSIVE SkipChars(_, _, _)
SkipChars(s, p, set) ==
  IF p <= Len(s) /\ s[p] \in set THEN SkipChars(s, p + 1, set) ELSE p

\* A greedy \s+ at p: the position after it, 0 when there is no whitespace at p.
Ws1(s, p) ==
  IF p >= 1 /\ p <= Len(s) /\ s[p] \in Whitespace
  THEN SkipChars(s, p, Whitespace)
  ELSE 0

RECURSIVE LastNonSpace(_, _)
LastNonSpace(s, q) ==
  IF q >= 1 /\ s[q] \in Whitespace THEN LastNonSpace(s, q - 1) ELSE q

\* String.prototype.trim
trim(s) ==
  LET a == SkipChars(s, 1, Whitespace)
      b == LastNonSpace(s, Len(s))
  IN IF a > b THEN <<>> ELSE SubSeq(s, a, b)

RECURSIVE NextLineBreak(_, _)
NextLineBreak(s, p) ==
  IF p > Len(s) \/ s[p] \in LineBreak THEN p ELSE NextLineBreak(s, p + 1)

RECURSIVE SplitFrom(_, _)
SplitFrom(s, p) ==
  LET q == NextLineBreak(s, p)
  IN IF q > Len(s)
     THEN << SubSeq(s, p, Len(s)) >>
     ELSE << SubSeq(s, p, q - 1) >> \o SplitFrom(s, q + 1)

\* content.split('\n'): the empty content has one (empty) line.
split(s) == SplitFrom(s, 1)

(***************************************************************************)
(* The scanned files: sequences of lines taken from a catalogue of Python  *)
(* source lines.  LineChars gives the characters of each line.             *)
(***************************************************************************)
LineChars ==
   ("from pytask import task" :> <<"f","r","o","m"," ","p","y","t","a","s","k"," ","i","m","p","o","r","t"," ","t","a","s","k">>) @@
   ("from pytask import task as t" :> <<"f","r","o","m"," ","p","y","t","a","s","k"," ","i","m","p","o","r","t"," ","t","a","s","k"," ","a","s"," ","t">>) @@
   ("import pytask" :> <<"i","m","p","o","r","t"," ","p","y","t","a","s","k">>) @@
   ("import pytask as pt" :> <<"i","m","p","o","r","t"," ","p","y","t","a","s","k"," ","a","s"," ","p","t">>) @@
   ("@task" :> <<"@","t","a","s","k">>) @@
   ("@t" :> <<"@","t">>) @@
   ("@task()" :> <<"@","t","a","s","k","(",")">>) @@
   ("@pytask.task" :> <<"@","p","y","t","a","s","k",".","t","a","s","k">>) @@
   ("@pytask.task(x)" :> <<"@","p","y","t","a","s","k",".","t","a","s","k","(","x",")">>) @@
   ("@pt.task(x)" :> <<"@","p","t",".","t","a","s","k","(","x",")">>) @@
   ("def task_b():" :> <<"d","e","f"," ","t","a","s","k","_","b","(",")",":">>) @@
   ("  def task_a ():" :> <<" "," ","d","e","f"," ","t","a","s","k","_","a"," ","(",")",":">>) @@
   ("    def foo(self):" :> <<" "," "," "," ","d","e","f"," ","f","o","o","(","s","e","l","f",")",":">>) @@
   ("" :> <<>>) @@
   ("class C:" :> <<"c","l","a","s","s"," ","C",":">>) @@
   ("from pytask import (" :> <<"f","r","o","m"," ","p","y","t","a","s","k"," ","i","m","p","o","r","t"," ","(">>) @@
   ("  Product," :> <<" "," ","P","r","o","d","u","c","t",",">>) @@
   ("  task," :> <<" "," ","t","a","s","k",",">>) @@
   ("  task as t," :> <<" "," ","t","a","s","k"," ","a","s"," ","t",",">>) @@
   ("  Product as P," :> <<" "," ","P","r","o","d","u","c","t"," ","a","s"," ","P",",">>) @@
   (")" :> <<")">>) @@
   ("@pytask.task(" :> <<"@","p","y","t","a","s","k",".","t","a","s","k","(">>) @@
   ("# Missing imports" :> <<"#"," ","M","i","s","s","i","n","g"," ","i","m","p","o","r","t","s">>) @@
   ("async def bar():" :> <<"a","s","y","n","c"," ","d","e","f"," ","b","a","r","(",")",":">>)

\* Files that use the default names task and pytask.
CoreLines ==
  { "from pytask import task", "import pytask",
    "@task", "@task()", "@pytask.task", "@pytask.task(x)",
    "def task_b():", "  def task_a ():", "    def foo(self):",
    "", "class C:" }

\* Files that import under an alias, next to the default names.
AliasLines ==
  { "from pytask import task", "from pytask import task as t",
    "import pytask", "import pytask as pt",
    "@task", "@t", "@pytask.task", "@pt.task(x)",
    "    def foo(self):", "def task_b():" }

FilesOver(catalogue) == UNION { [1..n -> catalogue] : n \in 1..MaxLines }

\* Files that open with a parenthesized from-import, one name on each line,
\* followed by a decorator and a definition whose name has no prefix.
ImportItemLines == { "  Product,", "  task,", "  task as t,", "  Product as P," }

ImportTailLines == { "@task", "@t" }

ImportFiles ==
  { <<"from pytask import (">> \o names \o <<")", d, "    def foo(self):">> :
      names \in UNION { [1..n -> ImportItemLines] : n \in 1..MaxNames },
      d \in ImportTailLines }

\* Files in which lines that are neither decorators nor matched by the
\* definition pattern stand between a decorator and a definition: a blank
\* line, a comment, a class header, an async def header, the closing line of
\* a decorator call written over several lines, and the import statements.
PendingLines ==
  { "from pytask import task", "import pytask",
    "@task", "@pytask.task(",
    "", "# Missing imports", "class C:", "async def bar():", ")",
    "    def foo(self):" }

\* The text of a file: its lines joined by "\n".
RECURSIVE JoinLines(_, _)
JoinLines(f, k) ==
  IF k > Len(f) THEN <<>>
  ELSE IF k = Len(f) THEN LineChars[f[k]]
  ELSE LineChars[f[k]] \o <<"\n">> \o JoinLines(f, k + 1)

ContentOf(f) == JoinLines(f, 1)

(***************************************************************************)
(* The regular expressions of findTaskFunctions.                           *)
(***************************************************************************)
\* A failed match, and the value of a capture group that did not take part.
NoMatch == [found |-> FALSE, group1 |-> <<>>]

NoClause == [end |-> 0, group1 |-> <<>>]

\* The least element of a non-empty set of positions.
Leftmost(S) == CHOOSE q \in S : \A r \in S : q <= r

\* (?:\s+as\s+(\w+)) at p: the position after it and the captured name,
\* end = 0 when it does not match.
AsClause(s, p) ==
  LET a == Ws1(s, p)
      b == IF a # 0 /\ StartsWithAt(s, a, LitAs) THEN Ws1(s, a + Len(LitAs)) ELSE 0
      e == IF b # 0 THEN SkipChars(s, b, WordChars) ELSE 0
  IN IF b # 0 /\ e > b
     THEN [end |-> e, group1 |-> SubSeq(s, b, e - 1)]
     ELSE NoClause

\* (?:[\w]+\s*,\s*)*task at q: the position after the literal task, 0 when
\* there is no match.  The greedy star prefers one more list item.
RECURSIVE TaskInList(_, _)
TaskInList(s, q) ==
  LET w == SkipChars(s, q, WordChars)
      c == SkipChars(s, w, Whitespace)
      item == w > q /\ c <= Len(s) /\ s[c] = ","
      more == IF item THEN TaskInList(s, SkipChars(s, c + 1, Whitespace)) ELSE 0
  IN IF more # 0 THEN more
     ELSE IF StartsWithAt(s, q, LitTask) THEN q + Len(LitTask)
     ELSE 0

\* /from\s+pytask\s+import\s+(?:\(?\s*(?:[\w]+\s*,\s*)*task(?:\s+as\s+(\w+))?
\*  (?:\s*,\s*[\w]+)*\s*\)?)/ tried at position p.  Everything after the
\* literal task is optional, so the match exists as soon as task is reached,
\* and the greedy as-clause is taken whenever it matches.
FromMatchAt(s, p) ==
  LET p1 == IF StartsWithAt(s, p, LitFrom) THEN Ws1(s, p + Len(LitFrom)) ELSE 0
      p2 == IF p1 # 0 /\ StartsWithAt(s, p1, LitPytask)
            THEN Ws1(s, p1 + Len(LitPytask)) ELSE 0
      p3 == IF p2 # 0 /\ StartsWithAt(s, p2, LitImport)
            THEN Ws1(s, p2 + Len(LitImport)) ELSE 0
      p4 == IF p3 = 0 THEN 0
            ELSE IF p3 <= Len(s) /\ s[p3] = "("
                 THEN SkipChars(s, p3 + 1, Whitespace)
                 ELSE p3
      t == IF p4 = 0 THEN 0 ELSE TaskInList(s, p4)
  IN IF t = 0 THEN NoMatch
     ELSE [found |-> TRUE, group1 |-> AsClause(s, t).group1]

\* content.match(/from\s+pytask\s+import .../): the leftmost match.
fromPytaskImport(s) ==
  LET starts == {q \in 1..Len(s) : s[q] = LitFrom[1] /\ FromMatchAt(s, q).found}
  IN IF starts = {} THEN NoMatch ELSE FromMatchAt(s, Leftmost(starts))

\* \s*$ under the m flag at p: the whitespace run from p contains a line
\* terminator or reaches the end of the text.
EndOfLineAt(s, p) ==
  LET q == SkipChars(s, p, Whitespace \ LineTerminators)
  IN q > Len(s) \/ s[q] \in LineTerminators

\* /import\s+pytask(?:\s+as\s+(\w+))?\s*$/m tried at position p.
ImportMatchAt(s, p) ==
  LET a == IF StartsWithAt(s, p, LitImport) THEN Ws1(s, p + Len(LitImport)) ELSE 0
      b == IF a # 0 /\ StartsWithAt(s, a, LitPytask) THEN a + Len(LitPytask) ELSE 0
      g == AsClause(s, b)
  IN IF b = 0 THEN NoMatch
     ELSE IF g.end # 0 /\ EndOfLineAt(s, g.end)
          THEN [found |-> TRUE, group1 |-> g.group1]
     ELSE IF EndOfLineAt(s, b) THEN [found |-> TRUE, group1 |-> <<>>]
     ELSE NoMatch

\* content.match(/import\s+pytask(?:\s+as\s+(\w+))?\s*$/m): the leftmost match.
importPytask(s) ==
  LET starts == {q \in 1..Len(s) : s[q] = LitImport[1] /\ ImportMatchAt(s, q).found}
  IN IF starts = {} THEN NoMatch ELSE ImportMatchAt(s, Leftmost(starts))

\* line.match(/^def\s+(\w+)\s*\(/)
funcMatch(line) ==
  LET a == IF StartsWithAt(line, 1, LitDef) THEN Ws1(line, 1 + Len(LitDef)) ELSE 0
      e == IF a # 0 THEN SkipChars(line, a, WordChars) ELSE 0
      c == IF a # 0 THEN SkipChars(line, e, Whitespace) ELSE 0
  IN IF a # 0 /\ e > a /\ c <= Len(line) /\ line[c] = "("
     THEN [found |-> TRUE, group1 |-> SubSeq(line, a, e - 1)]
     ELSE NoMatch

(***************************************************************************)
(* String.prototype.localeCompare and Array.prototype.sort.                *)
(***************************************************************************)
\* The collation order of the characters of an identifier or a file name
\* written in lower case: the underscore and the full stop sort before the
\* digits, the digits before the letters.
CollationOrder ==
  <<"_",".","0","1","2","3","4","5","6","7","8","9",
    "a","b","c","d","e","f","g","h","i","j","k","l","m",
    "n","o","p","q","r","s","t","u","v","w","x","y","z">>

CollationRank ==
  [c \in {CollationOrder[r] : r \in DOMAIN CollationOrder} |->
     CHOOSE r \in DOMAIN CollationOrder : CollationOrder[r] = c]

\* a.localeCompare(b): negative, zero or positive.
RECURSIVE CompareFrom(_, _, _)
CompareFrom(a, b, k) ==
  IF k > Len(a) /\ k > Len(b) THEN 0
  ELSE IF k > Len(a) THEN -1
  ELSE IF k > Len(b) THEN 1
  ELSE IF CollationRank[a[k]] < CollationRank[b[k]] THEN -1
  ELSE IF CollationRank[a[k]] > CollationRank[b[k]] THEN 1
  ELSE CompareFrom(a, b, k + 1)

localeCompare(a, b) == CompareFrom(a, b, 1)

\* x placed into a sorted sequence behind every element that does not
\* compare greater than it (the sort is stable).
RECURSIVE InsertSorted(_, _)
InsertSorted(sorted, x) ==
  IF sorted = << >> THEN << x >>
  ELSE IF localeCompare(Head(sorted).label, x.label) > 0
       THEN << x >> \o sorted
       ELSE << Head(sorted) >> \o InsertSorted(Tail(sorted), x)

RECURSIVE SortFrom(_, _, _)
SortFrom(ts, k, acc) ==
  IF k > Len(ts) THEN acc ELSE SortFrom(ts, k + 1, InsertSorted(acc, ts[k]))

\* A sort that leaves the items in the order of the lines.
sortTasks_Unsorted(ts) == ts

\* A sort that keeps one item per name.
RECURSIVE DropRepeatedNames(_, _, _)
DropRepeatedNames(ts, k, acc) ==
  IF k > Len(ts) THEN acc
  ELSE IF \E j \in 1..(k - 1) : ts[j].label = ts[k].label
       THEN DropRepeatedNames(ts, k + 1, acc)
       ELSE DropRepeatedNames(ts, k + 1, InsertSorted(acc, ts[k]))

sortTasks_OnePerName(ts) == DropRepeatedNames(ts, 1, << >>)

\* tasks.sort((a, b) => a.label.localeCompare(b.label))
sortTasks(ts) == SortFrom(ts, 1, << >>)

(***************************************************************************)
(* The steps of findTaskFunctions as functions of their inputs.            *)
(***************************************************************************)
\* An alias clause that is matched and then ignored.
taskAliasOf_Default(m) == LitTask

\* taskAlias after the pre-scan, from the match of the from-import.
taskAliasOf(m) == IF m.found /\ m.group1 # <<>> THEN m.group1 ELSE LitTask

\* pytaskAlias after the pre-scan: importPytask[1] || 'pytask'.
pytaskAliasOf(m) == IF m.found /\ m.group1 # <<>> THEN m.group1 ELSE LitPytask

\* The four import variables after the pre-scan of the content.
ImportsOf(text) ==
  LET f == fromPytaskImport(text)
      m == importPytask(text)
  IN [hasTaskImport |-> f.found, taskAlias |-> taskAliasOf(f),
      hasPytaskImport |-> m.found, pytaskAlias |-> pytaskAliasOf(m)]

\* A decorator test that does not ask whether the import was found.
decoratorMatches_WithoutImport(line, hasT, tAlias, hasP, pAlias) ==
  \/ line = LitAt \o tAlias
  \/ startsWith(line, LitAt \o pAlias \o LitDotTask)

\* A decorator test that looks for the qualified form only when the
\* from-import was not found.
decoratorMatches_OneModeOnly(line, hasT, tAlias, hasP, pAlias) ==
  \/ (hasT /\ line = LitAt \o tAlias)
  \/ (~hasT /\ hasP /\ startsWith(line, LitAt \o pAlias \o LitDotTask))

\* A decorator test that accepts the bare form as a prefix.
decoratorMatches_BarePrefix(line, hasT, tAlias, hasP, pAlias) ==
  \/ (hasT /\ startsWith(line, LitAt \o tAlias))
  \/ (hasP /\ startsWith(line, LitAt \o pAlias \o LitDotTask))

\* The value assigned to isDecorated on a decorator line.
decoratorMatches(line, hasT, tAlias, hasP, pAlias) ==
  \/ (hasT /\ line = LitAt \o tAlias)
  \/ (hasP /\ startsWith(line, LitAt \o pAlias \o LitDotTask))

\* An emit condition that asks for the decorator alone.
shouldAdd_DecoratedOnly(funcName, decorated) == decorated

\* funcName.startsWith('task_') || isDecorated
shouldAdd(funcName, decorated) ==
  startsWith(funcName, LitTaskPrefix) \/ decorated

\* An item that carries the 0-based loop index.
TaskItem_ZeroBased(funcName, idx) == [label |-> funcName, lineNumber |-> idx]

\* new TaskItem(funcName, filePath, i + 1), for the 0-based loop index idx.
\* The file path is the same in every item of a call and is left out.
TaskItem(funcName, idx) == [label |-> funcName, lineNumber |-> idx + 1]

\* Which branch of the loop body a trimmed line takes.
LineKind(line) ==
  IF startsWith(line, LitAt) THEN "decorator"
  ELSE IF funcMatch(line).found THEN "definition"
  ELSE "other"

\* A loop body that leaves the flag as it is after a definition line.
LoopBody_FlagKept(raw, idx, dec, ts, imp) ==
  LET line == trim(raw)
      kind == LineKind(line)
      name == funcMatch(line).group1
  IN IF kind = "decorator"
     THEN [isDecorated |-> decoratorMatches(line, imp.hasTaskImport, imp.taskAlias,
                                            imp.hasPytaskImport, imp.pytaskAlias),
           tasks |-> ts]
     ELSE IF kind = "definition"
     THEN [isDecorated |-> dec,
           tasks |-> IF shouldAdd(name, dec) THEN Append(ts, TaskItem(name, idx)) ELSE ts]
     ELSE [isDecorated |-> dec, tasks |-> ts]

\* A loop body in which a decorator line can only set the flag, not clear it.
LoopBody_FlagAccumulates(raw, idx, dec, ts, imp) ==
  LET line == trim(raw)
      kind == LineKind(line)
      name == funcMatch(line).group1
  IN IF kind = "decorator"
     THEN [isDecorated |-> dec \/ decoratorMatches(line, imp.hasTaskImport, imp.taskAlias,
                                            imp.hasPytaskImport, imp.pytaskAlias),
           tasks |-> ts]
     ELSE IF kind = "definition"
     THEN [isDecorated |-> FALSE,
           tasks |-> IF shouldAdd(name, dec) THEN Append(ts, TaskItem(name, idx)) ELSE ts]
     ELSE [isDecorated |-> dec, tasks |-> ts]

\* A loop body that clears the flag on every line that is not a decorator.
LoopBody_FlagDropped(raw, idx, dec, ts, imp) ==
  LET line == trim(raw)
      kind == LineKind(line)
      name == funcMatch(line).group1
  IN IF kind = "decorator"
     THEN [isDecorated |-> decoratorMatches(line, imp.hasTaskImport, imp.taskAlias,
                                            imp.hasPytaskImport, imp.pytaskAlias),
           tasks |-> ts]
     ELSE IF kind = "definition"
     THEN [isDecorated |-> FALSE,
           tasks |-> IF shouldAdd(name, dec) THEN Append(ts, TaskItem(name, idx)) ELSE ts]
     ELSE [isDecorated |-> FALSE, tasks |-> ts]

\* One iteration of the loop on the raw line at 0-based index idx, from the
\* flag dec and the items ts: the flag and the items after the iteration.
LoopBody(raw, idx, dec, ts, imp) ==
  LET line == trim(raw)
      kind == LineKind(line)
      name == funcMatch(line).group1
  IN IF kind = "decorator"
     THEN [isDecorated |-> decoratorMatches(line, imp.hasTaskImport, imp.taskAlias,
                                            imp.hasPytaskImport, imp.pytaskAlias),
           tasks |-> ts]
     ELSE IF kind = "definition"
     THEN [isDecorated |-> FALSE,
           tasks |-> IF shouldAdd(name, dec) THEN Append(ts, TaskItem(name, idx)) ELSE ts]
     ELSE [isDecorated |-> dec, tasks |-> ts]

RECURSIVE LoopFrom(_, _, _, _, _)
LoopFrom(ls, idx, dec, ts, imp) ==
  IF idx >= Len(ls) THEN ts
  ELSE LET r == LoopBody(ls[idx + 1], idx, dec, ts, imp)
       IN LoopFrom(ls, idx + 1, r.isDecorated, r.tasks, imp)

\* The value findTaskFunctions returns for a content.
findTaskFunctions(text) ==
  sortTasks(LoopFrom(split(text), 0, FALSE, << >>, ImportsOf(text)))

(***************************************************************************)
(* Paths.  A path is the sequence of its segments, so "/r1/a/task_a.py" is *)
(* <<"r1", "a", "task_a.py">>; "." is the one-segment path <<".">>.        *)
(***************************************************************************)
\* The characters of the segments used below.
NameChars ==
   ("task_a.py" :> <<"t","a","s","k","_","a",".","p","y">>) @@
   ("task_b.py" :> <<"t","a","s","k","_","b",".","p","y">>) @@
   ("a" :> <<"a">>) @@
   ("b" :> <<"b">>) @@
   (".." :> <<".",".">>) @@
   ("." :> <<".">>) @@
   ("r1" :> <<"r","1">>) @@
   ("r2" :> <<"r","2">>)

RECURSIVE CommonLen(_, _, _)
CommonLen(a, b, k) ==
  IF k < Len(a) /\ k < Len(b) /\ a[k + 1] = b[k + 1]
  THEN CommonLen(a, b, k + 1)
  ELSE k

\* path.relative(from, to) for two absolute paths.
relative(from, to) ==
  LET c == CommonLen(from, to, 0)
  IN [j \in 1..(Len(from) - c) |-> ".."] \o SubSeq(to, c + 1, Len(to))

\* path.dirname of a relative path.
dirname(p) == IF Len(p) <= 1 THEN <<".">> ELSE SubSeq(p, 1, Len(p) - 1)

\* path.basename.
basename(p) == p[Len(p)]

\* path.join: the segments of rel appended to base, ".." removing the
\* segment before it.
RECURSIVE join(_, _)
join(base, rel) ==
  IF rel = << >> THEN base
  ELSE IF Head(rel) = ".." /\ base # << >> /\ base[Len(base)] # ".."
       THEN join(SubSeq(base, 1, Len(base) - 1), Tail(rel))
       ELSE join(Append(base, Head(rel)), Tail(rel))

(***************************************************************************)
(* Map<string, TreeItemType>: the entries in insertion order.              *)
(***************************************************************************)
has(m, key) == \E n \in DOMAIN m : m[n].key = key

get(m, key) == m[CHOOSE n \in DOMAIN m : m[n].key = key].value

set(m, key, value) ==
  IF has(m, key)
  THEN [n \in DOMAIN m |->
          IF m[n].key = key THEN [key |-> key, value |-> value] ELSE m[n]]
  ELSE Append(m, [key |-> key, value |-> value])

values(m) == [n \in DOMAIN m |-> m[n].value]

(***************************************************************************)
(* The tree items.                                                         *)
(***************************************************************************)
FolderItem(label, children, folderPath) ==
  [kind |-> "folder", label |-> label, children |-> children, path |-> folderPath]

\* A module that shows no tasks.
ModuleItem_NoChildren(label, children, filePath) ==
  [kind |-> "module", label |-> label, children |-> << >>, path |-> filePath]

ModuleItem(label, children, filePath) ==
  [kind |-> "module", label |-> label, children |-> children, path |-> filePath]

(***************************************************************************)
(* The contents a task file can have, as sequences of catalogue lines, and *)
(* the items findTaskFunctions returns for each of them.                   *)
(***************************************************************************)
Sources ==
   ("none" :> <<"    def foo(self):">>) @@
   ("one" :> <<"def task_b():">>) @@
   ("two" :> <<"def task_b():", "  def task_a ():">>)

SourceKeys == DOMAIN Sources

\* The value of a path where no file is stored.
NoFile == "absent"

\* Every file scanned as if it still held the one-task source.
TaskItemsOf_Stale == [c \in SourceKeys |-> findTaskFunctions(ContentOf(Sources["one"]))]

TaskItemsOf == [c \in SourceKeys |-> findTaskFunctions(ContentOf(Sources[c]))]

(***************************************************************************)
(* buildFileTree: the body of the loop over the enumerated files, and the  *)
(* sort of the root items.                                                 *)
(***************************************************************************)
\* new Map(folderItem.children.filter(FolderItem).map([basename(label), child]))
RECURSIVE ChildFolders(_, _, _)
ChildFolders(children, k, acc) ==
  IF k > Len(children) THEN acc
  ELSE IF children[k].kind = "folder"
       THEN ChildFolders(children, k + 1,
                         set(acc, <<basename(<<children[k].label>>)>>, children[k]))
       ELSE ChildFolders(children, k + 1, acc)

\* The loop over pathParts.  currentItems is rootItems itself while atRoot
\* holds, and the separate map otherItems afterwards; only what is set in
\* rootItems outlives the loop.
RECURSIVE FolderLoop(_, _, _, _, _, _, _)
FolderLoop(rootItems, atRoot, otherItems, currentPath, pathParts, k, rootPath) ==
  IF k > Len(pathParts) THEN rootItems
  ELSE
    LET part == pathParts[k]
        newPath == IF currentPath # << >> THEN join(currentPath, <<part>>) ELSE <<part>>
        fullPath == join(rootPath, newPath)
        currentItems == IF atRoot THEN rootItems ELSE otherItems
        withFolder ==
          IF ~has(currentItems, newPath)
          THEN set(currentItems, newPath, FolderItem(part, << >>, fullPath))
          ELSE currentItems
        folderItem == get(withFolder, newPath)
        isFolder == folderItem.kind = "folder"
    IN FolderLoop(IF atRoot THEN withFolder ELSE rootItems,
                  atRoot /\ ~isFolder,
                  IF isFolder THEN ChildFolders(folderItem.children, 1, << >>)
                              ELSE withFolder,
                  newPath, pathParts, k + 1, rootPath)

\* One iteration of the loop over taskFiles, for a file that can be read:
\* rootItems after it.  source is what readFileSync returns.
FileLoopBody(rootItems, rootPath, taskFile, source) ==
  LET relativePath == relative(rootPath, taskFile)
      dirPath == dirname(relativePath)
      fileName == basename(taskFile)
      pathParts == dirPath
      withFolders ==
        IF dirPath # <<".">>
        THEN FolderLoop(rootItems, TRUE, << >>, << >>, pathParts, 1, rootPath)
        ELSE rootItems
      taskItems == TaskItemsOf[source]
      moduleItem == ModuleItem(fileName, taskItems, taskFile)
  IN IF dirPath = <<".">>
     THEN set(withFolders, <<fileName>>, moduleItem)
     ELSE IF has(withFolders, dirPath) /\ get(withFolders, dirPath).kind = "folder"
          THEN LET parentFolder == get(withFolders, dirPath)
               IN set(withFolders, dirPath,
                      [parentFolder EXCEPT !.children = Append(@, moduleItem)])
          ELSE withFolders

\* The comparison function of result.sort.
CompareNodes(a, b) ==
  IF a.kind = "folder" /\ b.kind # "folder" THEN -1
  ELSE IF a.kind # "folder" /\ b.kind = "folder" THEN 1
  ELSE localeCompare(NameChars[a.label], NameChars[b.label])

RECURSIVE InsertNode(_, _)
InsertNode(sorted, x) ==
  IF sorted = << >> THEN << x >>
  ELSE IF CompareNodes(Head(sorted), x) > 0
       THEN << x >> \o sorted
       ELSE << Head(sorted) >> \o InsertNode(Tail(sorted), x)

RECURSIVE SortNodesFrom(_, _, _)
SortNodesFrom(items, k, acc) ==
  IF k > Len(items) THEN acc ELSE SortNodesFrom(items, k + 1, InsertNode(acc, items[k]))

\* A result that shows a placeholder folder when there is nothing to show.
SortedResult_Placeholder(rootItems) ==
  IF rootItems = << >> THEN << FolderItem(".", << >>, << >>) >>
  ELSE SortNodesFrom(values(rootItems), 1, << >>)

\* Array.from(rootItems.values()), sorted.
SortedResult(rootItems) == SortNodesFrom(values(rootItems), 1, << >>)

(***************************************************************************)
(* The state of one call of findTaskFunctions.                             *)
(***************************************************************************)
VARIABLES
  file,             \* the lines of the scanned file (content is their join)
  pc,               \* "call", "loop", "done"
  hasTaskImport,
  taskAlias,
  pytaskAlias,
  hasPytaskImport,
  lines,            \* content.split('\n'), empty before the split
  isDecorated,
  i,                \* the loop index, 0-based as in the source
  tasks             \* the TaskItems: [label, lineNumber]

(***************************************************************************)
(* The state around one PyTaskProvider: the host's workspace, the files on *)
(* disk, the watcher's events, and the root queries the host has issued.   *)
(***************************************************************************)
VARIABLES
  workspaceFolders, \* vscode.workspace.workspaceFolders
  disk,             \* for every path, the source stored there or NoFile
  pending,          \* events the watcher has raised and not yet delivered
  fired,            \* notifications fired on _onDidChangeTreeData
  changes,          \* file-system changes made so far
  commands,         \* pytask.refresh commands run so far
  queries           \* the calls of getChildren() and their local variables

extractorVars ==
  << file, pc, hasTaskImport, taskAlias, pytaskAlias, hasPytaskImport,
     lines, isDecorated, i, tasks >>

providerVars ==
  << workspaceFolders, disk, pending, fired, changes, commands, queries >>

vars == << file, pc, hasTaskImport, taskAlias, pytaskAlias, hasPytaskImport,
           lines, isDecorated, i, tasks,
           workspaceFolders, disk, pending, fired, changes, commands, queries >>

\* No provider has been constructed: findTaskFunctions is called on its own.
ProviderUnused ==
  /\ workspaceFolders = [defined |-> FALSE, folders |-> << >>]
  /\ disk = << >>
  /\ pending = << >>
  /\ fired = 0
  /\ changes = 0
  /\ commands = 0
  /\ queries = << >>

content == ContentOf(file)

imports ==
  [hasTaskImport |-> hasTaskImport, taskAlias |-> taskAlias,
   hasPytaskImport |-> hasPytaskImport, pytaskAlias |-> pytaskAlias]

\* The declarations at the top of findTaskFunctions, before any matching,
\* for a file over the given catalogue of lines.
InitOver(catalogue) ==
  /\ file \in FilesOver(catalogue)
  /\ pc = "call"
  /\ hasTaskImport = FALSE
  /\ taskAlias = LitTask
  /\ pytaskAlias = LitPytask
  /\ hasPytaskImport = FALSE
  /\ lines = << >>
  /\ isDecorated = FALSE
  /\ i = 0
  /\ tasks = << >>
  /\ ProviderUnused

Init == InitOver(CoreLines)

InitAlias == InitOver(AliasLines)

\* The same declarations, for a file that opens with a multi-line import.
InitImports ==
  /\ file \in ImportFiles
  /\ pc = "call"
  /\ hasTaskImport = FALSE
  /\ taskAlias = LitTask
  /\ pytaskAlias = LitPytask
  /\ hasPytaskImport = FALSE
  /\ lines = << >>
  /\ isDecorated = FALSE
  /\ i = 0
  /\ tasks = << >>
  /\ ProviderUnused

\* The import pre-scan over the whole content, and the split into lines.
Prescan ==
  /\ pc = "call"
  /\ LET text == content
         imp == ImportsOf(text)
     IN /\ hasTaskImport' = imp.hasTaskImport
        /\ taskAlias' = imp.taskAlias
        /\ hasPytaskImport' = imp.hasPytaskImport
        /\ pytaskAlias' = imp.pytaskAlias
        /\ lines' = split(text)
  /\ pc' = "loop"
  /\ UNCHANGED << file, isDecorated, i, tasks >>
  /\ UNCHANGED providerVars

\* A loop iteration on a line that starts with "@".
DecoratorLine ==
  /\ pc = "loop"
  /\ i < Len(lines)
  /\ LineKind(trim(lines[i + 1])) = "decorator"
  /\ isDecorated' = LoopBody(lines[i + 1], i, isDecorated, tasks, imports).isDecorated
  /\ i' = i + 1
  /\ UNCHANGED << file, pc, hasTaskImport, taskAlias, pytaskAlias, hasPytaskImport,
                  lines, tasks >>
  /\ UNCHANGED providerVars

\* A loop iteration on a line the definition pattern matches.
DefinitionLine ==
  /\ pc = "loop"
  /\ i < Len(lines)
  /\ LineKind(trim(lines[i + 1])) = "definition"
  /\ tasks' = LoopBody(lines[i + 1], i, isDecorated, tasks, imports).tasks
  /\ isDecorated' = LoopBody(lines[i + 1], i, isDecorated, tasks, imports).isDecorated
  /\ i' = i + 1
  /\ UNCHANGED << file, pc, hasTaskImport, taskAlias, pytaskAlias, hasPytaskImport,
                  lines >>
  /\ UNCHANGED providerVars

\* A loop iteration on any other line.
OtherLine ==
  /\ pc = "loop"
  /\ i < Len(lines)
  /\ LineKind(trim(lines[i + 1])) = "other"
  /\ isDecorated' = LoopBody(lines[i + 1], i, isDecorated, tasks, imports).isDecorated
  /\ tasks' = LoopBody(lines[i + 1], i, isDecorated, tasks, imports).tasks
  /\ i' = i + 1
  /\ UNCHANGED << file, pc, hasTaskImport, taskAlias, pytaskAlias, hasPytaskImport,
                  lines >>
  /\ UNCHANGED providerVars

\* The loop is over: the items are sorted in place and returned.
SortAndReturn ==
  /\ pc = "loop"
  /\ i = Len(lines)
  /\ tasks' = sortTasks(tasks)
  /\ pc' = "done"
  /\ UNCHANGED << file, hasTaskImport, taskAlias, pytaskAlias, hasPytaskImport,
                  lines, isDecorated, i >>
  /\ UNCHANGED providerVars

Next ==
  \/ Prescan
  \/ DecoratorLine
  \/ DefinitionLine
  \/ OtherLine
  \/ SortAndReturn

Spec == Init /\ [][Next]_vars

SpecAlias == InitAlias /\ [][Next]_vars

SpecImports == InitImports /\ [][Next]_vars

InitPending == InitOver(PendingLines)

SpecPending == InitPending /\ [][Next]_vars

(***************************************************************************)
(* The provider in its host: workspaces, files on disk, findFiles.         *)
(***************************************************************************)
RootOne == <<"r1">>
RootTwo == <<"r2">>

NoWorkspace == [defined |-> FALSE, folders |-> << >>]

WorkspaceSettings ==
  { NoWorkspace,
    [defined |-> TRUE, folders |-> << >>],
    [defined |-> TRUE, folders |-> << RootOne >>],
    [defined |-> TRUE, folders |-> << RootOne, RootTwo >>] }

\* The paths a file can be stored at.
FilePaths ==
  { <<"r1", "task_a.py">>, <<"r1", "task_b.py">>,
    <<"r1", "a", "task_a.py">>, <<"r1", "a", "task_b.py">>,
    <<"r1", "b", "task_a.py">>, <<"r1", "a", "b", "task_a.py">>,
    <<"r1", ".venv", "task_a.py">>,
    <<"r2", "task_a.py">>, <<"r2", "a", "task_a.py">> }

FilesOn(d) == { p \in DOMAIN d : d[p] # NoFile }

\* The disks that store sources of the given set at paths of the given set.
DisksOver(paths, sources) ==
  { d \in [FilePaths -> sources \cup {NoFile}] :
      /\ FilesOn(d) \subseteq paths
      /\ Cardinality(FilesOn(d)) <= MaxFiles }

IsPathPrefix(folder, p) ==
  Len(folder) < Len(p) /\ SubSeq(p, 1, Len(folder)) = folder

InWorkspace(p, ws) ==
  ws.defined /\ \E n \in DOMAIN ws.folders : IsPathPrefix(ws.folders[n], p)

EndsWith(s, lit) ==
  Len(s) >= Len(lit) /\ SubSeq(s, Len(s) - Len(lit) + 1, Len(s)) = lit

\* The glob **/task_*.py.
MatchesInclude(p) ==
  LET name == NameChars[basename(p)]
  IN /\ Len(name) >= Len(LitTaskPrefix) + 3
     /\ startsWith(name, LitTaskPrefix)
     /\ EndsWith(name, <<".", "p", "y">>)

ExcludedFolders == { "node_modules", ".venv", ".git", ".pixi", "venv", "__pycache__" }

\* The glob {**/node_modules/**,**/.venv/**,...}.
MatchesExclude(p) == \E k \in 1..(Len(p) - 1) : p[k] \in ExcludedFolders

\* The files findFiles can resolve to, in every order it can return them.
Found(d, ws) ==
  { p \in FilesOn(d) : InWorkspace(p, ws) /\ MatchesInclude(p) /\ ~MatchesExclude(p) }

Orders(S) ==
  { f \in [1..Cardinality(S) -> S] : \A m, n \in 1..Cardinality(S) : f[m] = f[n] => m = n }

findFiles(d, ws) == Orders(Found(d, ws))

\* A call of getChildren() that the host has not made yet.  received is the
\* position of the call's result among the results the host has received,
\* 0 while it has received none from this call.
NotCalled ==
  [pc |-> "idle", taskFiles |-> << >>, k |-> 0, rootItems |-> << >>,
   result |-> << >>, quiet |-> TRUE, received |-> 0]

\* The number of results the host has received so far.
Delivered == Cardinality({ q \in DOMAIN queries : queries[q].received > 0 })

\* getChildren(element) for a folder or a module.
getChildrenOf(element) ==
  IF element.kind \in {"folder", "module"} THEN element.children ELSE << >>

ExtractorUnused ==
  /\ file = << >>
  /\ pc = "unused"
  /\ hasTaskImport = FALSE
  /\ taskAlias = LitTask
  /\ pytaskAlias = LitPytask
  /\ hasPytaskImport = FALSE
  /\ lines = << >>
  /\ isDecorated = FALSE
  /\ i = 0
  /\ tasks = << >>

\* A constructed provider, before the host's first query.
InitProvider(settings, disks, calls) ==
  /\ ExtractorUnused
  /\ workspaceFolders \in settings
  /\ disk \in disks
  /\ pending = << >>
  /\ fired = 0
  /\ changes = 0
  /\ commands = 0
  /\ queries = [q \in 1..calls |-> NotCalled]

\* The synchronous part of buildFileTree is running in some query.
InLoop == \E q \in DOMAIN queries : queries[q].pc = "loop"

\* A provider that takes a root query only when no build is in flight.
MayCall_Serialized(q) ==
  /\ queries[q].pc = "idle"
  /\ q > 1 => queries[q - 1].pc # "idle"
  /\ \A o \in DOMAIN queries : queries[o].pc \notin {"findFiles", "found", "loop"}

\* The host may call getChildren() for query q now.
MayCall(q) ==
  /\ queries[q].pc = "idle"
  /\ q > 1 => queries[q - 1].pc # "idle"
  /\ ~InLoop

\* getChildren() without workspace folders: the empty list at once.
ReturnNoWorkspace ==
  /\ \E q \in DOMAIN queries :
       /\ MayCall(q)
       /\ ~workspaceFolders.defined
       /\ queries' = [queries EXCEPT ![q].pc = "returned", ![q].result = << >>,
                                     ![q].received = Delivered + 1]
  /\ UNCHANGED << workspaceFolders, disk, pending, fired, changes, commands >>
  /\ UNCHANGED extractorVars

\* A map that is kept from one call of buildFileTree to the next.
NewRootItems_Kept(q) == IF q > 1 THEN queries[q - 1].rootItems ELSE << >>

\* const rootItems = new Map() in the call of query q.
NewRootItems(q) == << >>

\* getChildren() with workspace folders: a new rootItems, and findFiles is
\* awaited.
CallFindFiles ==
  /\ \E q \in DOMAIN queries :
       /\ MayCall(q)
       /\ workspaceFolders.defined
       /\ queries' = [queries EXCEPT ![q].pc = "findFiles",
                                     ![q].rootItems = NewRootItems(q),
                                     ![q].quiet = TRUE]
  /\ UNCHANGED << workspaceFolders, disk, pending, fired, changes, commands >>
  /\ UNCHANGED extractorVars

\* The search behind findFiles lists the matching files now on disk, in
\* some order; it runs outside the extension, next to whatever the
\* extension is doing.
FindFilesEnumerates ==
  /\ \E q \in DOMAIN queries :
       /\ queries[q].pc = "findFiles"
       /\ \E found \in findFiles(disk, workspaceFolders) :
            queries' = [queries EXCEPT ![q].pc = "found", ![q].taskFiles = found]
  /\ UNCHANGED << workspaceFolders, disk, pending, fired, changes, commands >>
  /\ UNCHANGED extractorVars

\* The promise of findFiles resolves with the files the search has listed,
\* and buildFileTree goes on with its loop.
FindFilesResolves ==
  /\ ~InLoop
  /\ \E q \in DOMAIN queries :
       /\ queries[q].pc = "found"
       /\ queries' = [queries EXCEPT ![q].pc = "loop", ![q].k = 0]
  /\ UNCHANGED << workspaceFolders, disk, pending, fired, changes, commands >>
  /\ UNCHANGED extractorVars

\* One iteration of the loop over taskFiles; the file is read.
ProcessFile ==
  /\ \E q \in DOMAIN queries :
       LET call == queries[q]
           taskFile == call.taskFiles[call.k + 1]
       IN /\ call.pc = "loop"
          /\ call.k < Len(call.taskFiles)
          /\ disk[taskFile] # NoFile
          /\ queries' =
               [queries EXCEPT
                  ![q].rootItems = FileLoopBody(call.rootItems, workspaceFolders.folders[1],
                                                taskFile, disk[taskFile]),
                  ![q].k = call.k + 1]
  /\ UNCHANGED << workspaceFolders, disk, pending, fired, changes, commands >>
  /\ UNCHANGED extractorVars

\* The loop is over: the root items are sorted and returned.
SortAndReturnTree ==
  /\ \E q \in DOMAIN queries :
       LET call == queries[q]
       IN /\ call.pc = "loop"
          /\ call.k = Len(call.taskFiles)
          /\ queries' = [queries EXCEPT ![q].pc = "returned",
                                        ![q].result = SortedResult(call.rootItems),
                                        ![q].received = Delivered + 1]
  /\ UNCHANGED << workspaceFolders, disk, pending, fired, changes, commands >>
  /\ UNCHANGED extractorVars

NextTree ==
  \/ ReturnNoWorkspace
  \/ CallFindFiles
  \/ FindFilesEnumerates
  \/ FindFilesResolves
  \/ ProcessFile
  \/ SortAndReturnTree

\* The sources of the files of a workspace that does not change.
TreeSources == { "none", "two" }

InitTree == InitProvider(WorkspaceSettings, DisksOver(FilePaths, TreeSources), 1)

SpecTree == InitTree /\ [][NextTree]_vars

(***************************************************************************)
(* The provider while files change: the watcher's events, the refresh      *)
(* command, and reads of files that are gone.                              *)
(***************************************************************************)
\* The glob of the file system watcher, **/task_*.py in the workspace.
Watched(p) == InWorkspace(p, workspaceFolders) /\ MatchesInclude(p)

\* A change on disk, seen from the queries the host has made so far.
Disturbed ==
  [q \in DOMAIN queries |->
     IF queries[q].pc # "idle" THEN [queries[q] EXCEPT !.quiet = FALSE]
     ELSE queries[q]]

\* The paths whose files change, and the sources written to them: a file
\* with one task, and the same file with a second task appended.
WatchPaths == { <<"r1", "task_a.py">>, <<"r1", "a", "task_b.py">> }

WatchSources == { "one", "two" }

\* A file is created.
CreateFile ==
  /\ changes < MaxChanges
  /\ Cardinality(FilesOn(disk)) < MaxFiles
  /\ \E p \in WatchPaths, c \in WatchSources :
       /\ disk[p] = NoFile
       /\ disk' = [disk EXCEPT ![p] = c]
       /\ pending' = IF Watched(p) THEN Append(pending, "create") ELSE pending
  /\ changes' = changes + 1
  /\ queries' = Disturbed
  /\ UNCHANGED << workspaceFolders, fired, commands >>
  /\ UNCHANGED extractorVars

\* A file is written with another content.
ChangeFile ==
  /\ changes < MaxChanges
  /\ \E p \in WatchPaths, c \in WatchSources :
       /\ disk[p] # NoFile
       /\ disk[p] # c
       /\ disk' = [disk EXCEPT ![p] = c]
       /\ pending' = IF Watched(p) THEN Append(pending, "change") ELSE pending
  /\ changes' = changes + 1
  /\ queries' = Disturbed
  /\ UNCHANGED << workspaceFolders, fired, commands >>
  /\ UNCHANGED extractorVars

\* A file is deleted.
DeleteFile ==
  /\ changes < MaxChanges
  /\ \E p \in WatchPaths :
       /\ disk[p] # NoFile
       /\ disk' = [disk EXCEPT ![p] = NoFile]
       /\ pending' = IF Watched(p) THEN Append(pending, "delete") ELSE pending
  /\ changes' = changes + 1
  /\ queries' = Disturbed
  /\ UNCHANGED << workspaceFolders, fired, commands >>
  /\ UNCHANGED extractorVars

\* A refresh that fires the event twice.
refresh_Twice(n) == n + 2

\* refresh(): _onDidChangeTreeData.fire().
refresh(n) == n + 1

\* The handler registered with fileSystemWatcher.onDidCreate.
onDidCreate ==
  /\ ~InLoop
  /\ pending # << >>
  /\ Head(pending) = "create"
  /\ pending' = Tail(pending)
  /\ fired' = refresh(fired)
  /\ UNCHANGED << workspaceFolders, disk, changes, commands, queries >>
  /\ UNCHANGED extractorVars

\* The handler registered with fileSystemWatcher.onDidChange.
onDidChange ==
  /\ ~InLoop
  /\ pending # << >>
  /\ Head(pending) = "change"
  /\ pending' = Tail(pending)
  /\ fired' = refresh(fired)
  /\ UNCHANGED << workspaceFolders, disk, changes, commands, queries >>
  /\ UNCHANGED extractorVars

\* The handler registered with fileSystemWatcher.onDidDelete.
onDidDelete ==
  /\ ~InLoop
  /\ pending # << >>
  /\ Head(pending) = "delete"
  /\ pending' = Tail(pending)
  /\ fired' = refresh(fired)
  /\ UNCHANGED << workspaceFolders, disk, changes, commands, queries >>
  /\ UNCHANGED extractorVars

\* The command pytask.refresh.
refreshCommand ==
  /\ ~InLoop
  /\ commands < MaxCommands
  /\ commands' = commands + 1
  /\ fired' = refresh(fired)
  /\ UNCHANGED << workspaceFolders, disk, pending, changes, queries >>
  /\ UNCHANGED extractorVars

\* One iteration of the loop over taskFiles; the file is gone, readFileSync
\* throws, and the promise of getChildren() is rejected.
ReadFails ==
  /\ \E q \in DOMAIN queries :
       LET call == queries[q]
       IN /\ call.pc = "loop"
          /\ call.k < Len(call.taskFiles)
          /\ disk[call.taskFiles[call.k + 1]] = NoFile
          /\ queries' = [queries EXCEPT ![q].pc = "failed"]
  /\ UNCHANGED << workspaceFolders, disk, pending, fired, changes, commands >>
  /\ UNCHANGED extractorVars

\* Root queries while files change; the watcher's events stay undelivered.
NextWatch ==
  \/ ReturnNoWorkspace
  \/ CallFindFiles
  \/ FindFilesEnumerates
  \/ FindFilesResolves
  \/ ProcessFile
  \/ ReadFails
  \/ SortAndReturnTree
  \/ CreateFile
  \/ ChangeFile
  \/ DeleteFile

\* The same with the event handlers and the refresh command.
NextRefresh ==
  \/ ReturnNoWorkspace
  \/ CallFindFiles
  \/ FindFilesEnumerates
  \/ FindFilesResolves
  \/ ProcessFile
  \/ ReadFails
  \/ SortAndReturnTree
  \/ CreateFile
  \/ ChangeFile
  \/ DeleteFile
  \/ onDidCreate
  \/ onDidChange
  \/ onDidDelete
  \/ refreshCommand

WatchSettings ==
  { NoWorkspace,
    [defined |-> TRUE, folders |-> << >>],
    [defined |-> TRUE, folders |-> << RootOne >>] }

\* Two root queries, so that one can run before a change and one after it.
InitWatch == InitProvider(WatchSettings, DisksOver(WatchPaths, WatchSources), 2)

SpecWatch == InitWatch /\ [][NextWatch]_vars

\* One root query, next to the events and the command.
InitRefresh == InitProvider(WatchSettings, DisksOver(WatchPaths, WatchSources), 1)

SpecRefresh == InitRefresh /\ [][NextRefresh]_vars

(***************************************************************************)
(* Overlapping root queries in a workspace in which files are created: the *)
(* created events are delivered, the refresh command runs, and the host    *)
(* calls getChildren() again while earlier calls are still in flight.      *)
(***************************************************************************)
NextOverlap ==
  \/ CallFindFiles
  \/ FindFilesEnumerates
  \/ FindFilesResolves
  \/ ProcessFile
  \/ SortAndReturnTree
  \/ CreateFile
  \/ onDidCreate
  \/ refreshCommand

OverlapSettings == { [defined |-> TRUE, folders |-> << RootOne >>] }

InitOverlap ==
  InitProvider(OverlapSettings, DisksOver(WatchPaths, WatchSources), MaxQueries)

SpecOverlap == InitOverlap /\ [][NextOverlap]_vars

\* The tree the host shows: the result it has received last.
Shown ==
  IF Delivered = 0 THEN << >>
  ELSE LET q == CHOOSE o \in DOMAIN queries : queries[o].received = Delivered
       IN queries[q].result

(***************************************************************************)
(* What the catalogue's lines are in Python, written down by hand: the     *)
(* properties below compare the scan against these facts, not against the  *)
(* scan's own pattern matching.                                            *)
(***************************************************************************)
NameFoo == <<"f","o","o">>
NameTaskA == <<"t","a","s","k","_","a">>
NameTaskB == <<"t","a","s","k","_","b">>

\* The name of the function a line defines, << >> when it defines none.
DefinedName(k) ==
  CASE k = "def task_b():" -> NameTaskB
    [] k = "  def task_a ():" -> NameTaskA
    [] k = "    def foo(self):" -> NameFoo
    [] OTHER -> << >>

IsDefinitionKey(k) == DefinedName(k) # << >>

\* The names that begin with task_.
PrefixedNames == {NameTaskA, NameTaskB}

IsPrefixedDefinition(k) == DefinedName(k) \in PrefixedNames

\* The names in alphabetical order.
NameOrder == << NameFoo, NameTaskA, NameTaskB >>

NameBefore(a, b) ==
  \E x, y \in DOMAIN NameOrder : NameOrder[x] = a /\ NameOrder[y] = b /\ x <= y

DecoratorKeys ==
  {"@task", "@t", "@task()", "@pytask.task", "@pytask.task(x)", "@pt.task(x)", "@pytask.task("}

\* @ followed by one identifier and nothing else.
BareDecoratorKeys == {"@task", "@t"}

\* @ followed by <module>.task, with or without call parentheses.
QualifiedDecoratorKeys ==
  {"@pytask.task", "@pytask.task(x)", "@pt.task(x)", "@pytask.task("}

FromImportKeys == {"from pytask import task", "from pytask import task as t"}

ModuleImportKeys == {"import pytask", "import pytask as pt"}

BlankKeys == {""}

HasLine(keys) == \E n \in DOMAIN file : file[n] \in keys

\* The 1-based line n has an item among the tasks.
Emitted(n) == \E k \in DOMAIN tasks : tasks[k].lineNumber = n

\* The line above n, blank lines skipped; 0 when there is none.
RECURSIVE NearestNonBlankAbove(_, _)
NearestNonBlankAbove(f, n) ==
  IF n <= 1 THEN 0
  ELSE IF f[n - 1] \in BlankKeys THEN NearestNonBlankAbove(f, n - 1)
  ELSE n - 1

\* The decorator line k is the marker under the detected imports: it equals
\* @<marker alias>, or it begins with @<module alias>.task.
IsPrefixOf(pfx, text) ==
  Len(pfx) <= Len(text) /\ SubSeq(text, 1, Len(pfx)) = pfx

MarkerUnderImports(k) ==
  \/ hasTaskImport /\ LineChars[k] = <<"@">> \o taskAlias
  \/ hasPytaskImport /\ IsPrefixOf(<<"@">> \o pytaskAlias \o <<".","t","a","s","k">>, LineChars[k])

\* The loop has just processed the 1-based line n.
JustProcessed(n) == pc = "loop" /\ i = n /\ n >= 1 /\ n <= Len(file)

(***************************************************************************)
(* C1.  Recognition rule: when the scan has returned, a line has an item   *)
(* if and only if it is a function definition whose name starts with       *)
(* task_, or a function definition whose nearest non-blank line above is a *)
(* decorator line that is the marker under the detected imports.           *)
(***************************************************************************)
TaskByRule(n) ==
  /\ IsDefinitionKey(file[n])
  /\ \/ IsPrefixedDefinition(file[n])
     \/ LET m == NearestNonBlankAbove(file, n)
        IN m > 0 /\ file[m] \in DecoratorKeys /\ MarkerUnderImports(file[m])

C1_RecognitionRule ==
  pc = "done" => \A n \in DOMAIN file : Emitted(n) <=> TaskByRule(n)

(***************************************************************************)
(* C2.  The prefix rule is sufficient on its own: every line the loop has  *)
(* passed that defines a function named task_... has an item with that     *)
(* name, whatever the imports and whatever stands above the line.          *)
(***************************************************************************)
C2_PrefixSufficient ==
  pc \in {"loop", "done"} =>
    \A n \in 1..i :
      IsPrefixedDefinition(file[n]) =>
        \E k \in DOMAIN tasks :
          tasks[k].lineNumber = n /\ tasks[k].label = DefinedName(file[n])

\* A prefixed definition directly below a decorator that is not the marker,
\* in a file without imports, has its item.
C2_Witness ==
  /\ pc = "done"
  /\ ~HasLine(FromImportKeys \cup ModuleImportKeys)
  /\ \E n \in DOMAIN file :
       /\ n >= 2
       /\ file[n - 1] \in DecoratorKeys
       /\ IsPrefixedDefinition(file[n])
       /\ Emitted(n)

(***************************************************************************)
(* C3.  A decorator counts only with its own import: in a file without a   *)
(* from-import no bare decorator line sets the flag, in a file without a   *)
(* module import no qualified decorator line sets it, and from a file with *)
(* neither import the items are exactly the task_ definitions.             *)
(***************************************************************************)
C3_ImportRequired ==
  /\ \A n \in DOMAIN file :
       /\ (JustProcessed(n) /\ file[n] \in BareDecoratorKeys /\ ~HasLine(FromImportKeys))
            => ~isDecorated
       /\ (JustProcessed(n) /\ file[n] \in QualifiedDecoratorKeys /\ ~HasLine(ModuleImportKeys))
            => ~isDecorated
  /\ (pc = "done" /\ ~HasLine(FromImportKeys \cup ModuleImportKeys)) =>
       \A n \in DOMAIN file : Emitted(n) <=> IsPrefixedDefinition(file[n])

\* A file without imports in which @task stands directly above foo: foo has
\* no item, and a task_ definition of the file has one.
C3_Witness ==
  /\ pc = "done"
  /\ ~HasLine(FromImportKeys \cup ModuleImportKeys)
  /\ \E n \in DOMAIN file :
       /\ n >= 2
       /\ file[n - 1] \in BareDecoratorKeys \cup QualifiedDecoratorKeys
       /\ DefinedName(file[n]) = NameFoo
       /\ ~Emitted(n)
  /\ \E n \in DOMAIN file : Emitted(n)

(***************************************************************************)
(* C4.  With its import detected a decorator works: a definition directly  *)
(* below @task is emitted when the from-import is detected under the name  *)
(* task, a definition directly below @pytask.task is emitted when the      *)
(* module import is detected under the name pytask; a file in which both   *)
(* imports occur (and no aliased one) has both detected; and a definition  *)
(* without the prefix and with no decorator line between it and the        *)
(* definition before it (or the top of the file) is not emitted.           *)
(***************************************************************************)
\* No decorator line stands between line n and the definition before it.
NoDecoratorSincePreviousDefinition(n) ==
  \A m \in 1..(n - 1) :
    file[m] \in DecoratorKeys => \E d \in (m + 1)..(n - 1) : IsDefinitionKey(file[d])

DefaultFromImportDetected == hasTaskImport /\ taskAlias = <<"t","a","s","k">>

DefaultModuleImportDetected == hasPytaskImport /\ pytaskAlias = <<"p","y","t","a","s","k">>

C4_DecoratorWithImport ==
  /\ ( /\ pc \in {"loop", "done"}
       /\ HasLine({"from pytask import task"})
       /\ HasLine({"import pytask"})
       /\ ~HasLine({"from pytask import task as t", "import pytask as pt"}) )
     => (DefaultFromImportDetected /\ DefaultModuleImportDetected)
  /\ pc = "done" =>
       \A n \in DOMAIN file :
         /\ ( /\ n >= 2
              /\ IsDefinitionKey(file[n])
              /\ \/ file[n - 1] = "@task" /\ DefaultFromImportDetected
                 \/ /\ file[n - 1] \in {"@pytask.task", "@pytask.task(x)"}
                    /\ DefaultModuleImportDetected )
            => Emitted(n)
         /\ ( /\ IsDefinitionKey(file[n])
              /\ ~IsPrefixedDefinition(file[n])
              /\ NoDecoratorSincePreviousDefinition(n) )
            => ~Emitted(n)

\* A file with both imports, in which foo stands directly below @pytask.task
\* and has its item.
C4_Witness ==
  /\ pc = "done"
  /\ HasLine({"from pytask import task"})
  /\ HasLine({"import pytask"})
  /\ \E n \in DOMAIN file :
       /\ n >= 2
       /\ file[n - 1] = "@pytask.task"
       /\ DefinedName(file[n]) = NameFoo
       /\ Emitted(n)

(***************************************************************************)
(* C5.  A loop iteration on a decorator line sets the flag to true exactly *)
(* when the line equals @<marker alias> with the from-import detected, or  *)
(* begins with @<module alias>.task with the module import detected, and   *)
(* to false otherwise; it adds no item.  So @task() never sets the flag,   *)
(* and @pytask.task, bare or called, sets it under import pytask.          *)
(***************************************************************************)
C5_DecoratorTransition ==
  [][ ( /\ pc = "loop"
        /\ i < Len(file)
        /\ i' = i + 1
        /\ file[i + 1] \in DecoratorKeys )
      => /\ isDecorated' = MarkerUnderImports(file[i + 1])
         /\ tasks' = tasks
         /\ (file[i + 1] = "@task()" => ~isDecorated')
         /\ ( ( /\ file[i + 1] \in {"@pytask.task", "@pytask.task(x)"}
                /\ DefaultModuleImportDetected )
              => isDecorated' ) ]_vars

\* With both imports detected, @task() has left the flag false and the
\* called form @pytask.task(x) directly below it has set it.
C5_Witness ==
  /\ pc = "loop"
  /\ i >= 2
  /\ i <= Len(file)
  /\ file[i - 1] = "@task()"
  /\ file[i] = "@pytask.task(x)"
  /\ hasTaskImport
  /\ hasPytaskImport
  /\ isDecorated

(***************************************************************************)
(* C6.  An aliased import is honoured under its alias.  In a file whose    *)
(* from-imports are all "from pytask import task as t", the decorator line *)
(* @t sets the flag and @task does not; in a file whose module imports are *)
(* all "import pytask as pt", @pt.task(x) sets the flag and @pytask.task   *)
(* does not.  In a file whose imports carry no alias the default names     *)
(* are the ones that count: @task and @pytask.task set the flag, @t and    *)
(* @pt.task(x) do not.                                                     *)
(***************************************************************************)
OnlyFromImport(k) == HasLine({k}) /\ ~HasLine(FromImportKeys \ {k})

OnlyModuleImport(k) == HasLine({k}) /\ ~HasLine(ModuleImportKeys \ {k})

C6_AliasHonoured ==
  \A n \in DOMAIN file :
    JustProcessed(n) =>
      /\ OnlyFromImport("from pytask import task as t") =>
           /\ (file[n] = "@t" => isDecorated)
           /\ (file[n] = "@task" => ~isDecorated)
      /\ OnlyFromImport("from pytask import task") =>
           /\ (file[n] = "@task" => isDecorated)
           /\ (file[n] = "@t" => ~isDecorated)
      /\ OnlyModuleImport("import pytask as pt") =>
           /\ (file[n] = "@pt.task(x)" => isDecorated)
           /\ (file[n] = "@pytask.task" => ~isDecorated)
      /\ OnlyModuleImport("import pytask") =>
           /\ (file[n] = "@pytask.task" => isDecorated)
           /\ (file[n] = "@pt.task(x)" => ~isDecorated)

\* Under "from pytask import task as t" and "import pytask as pt", foo
\* directly below @t has become a task.
C6_Witness ==
  /\ pc = "done"
  /\ OnlyFromImport("from pytask import task as t")
  /\ OnlyModuleImport("import pytask as pt")
  /\ taskAlias = <<"t">>
  /\ pytaskAlias = <<"p","t">>
  /\ \E n \in DOMAIN file :
       /\ n >= 2
       /\ file[n - 1] = "@t"
       /\ DefinedName(file[n]) = NameFoo
       /\ Emitted(n)

(***************************************************************************)
(* C7.  The import pre-scan does not depend on where an import stands:     *)
(* moving one import line of the scanned file to any other position leaves *)
(* the set of emitted names as it is.                                      *)
(***************************************************************************)
\* The file with line a taken out and put back as line b.
MoveLine(f, a, b) ==
  LET without == SubSeq(f, 1, a - 1) \o SubSeq(f, a + 1, Len(f))
  IN SubSeq(without, 1, b - 1) \o << f[a] >> \o SubSeq(without, b, Len(without))

NamesOf(ts) == { ts[k].label : k \in DOMAIN ts }

C7_ImportPositionIrrelevant ==
  pc = "done" =>
    \A a, b \in DOMAIN file :
      file[a] \in FromImportKeys \cup ModuleImportKeys =>
        NamesOf(findTaskFunctions(ContentOf(MoveLine(file, a, b)))) = NamesOf(tasks)

(***************************************************************************)
(* C8.  From a file in which every definition is named task_... and no     *)
(* decorator line occurs, the scan returns one item per definition line    *)
(* and nothing else, in alphabetical order of the names, each with the     *)
(* 1-based number of its line.                                             *)
(***************************************************************************)
DefinitionLinesOf(f) == { n \in DOMAIN f : IsDefinitionKey(f[n]) }

C8_PrefixOnlyFile ==
  ( /\ pc = "done"
    /\ ~HasLine(DecoratorKeys)
    /\ \A n \in DOMAIN file : IsDefinitionKey(file[n]) => IsPrefixedDefinition(file[n]) )
  => /\ Len(tasks) = Cardinality(DefinitionLinesOf(file))
     /\ \A n \in DefinitionLinesOf(file) :
          \E k \in DOMAIN tasks :
            tasks[k] = [label |-> DefinedName(file[n]), lineNumber |-> n]
     /\ \A k \in 1..(Len(tasks) - 1) : NameBefore(tasks[k].label, tasks[k + 1].label)

\* task_b is defined above task_a and the returned items are in the other order.
C8_Witness ==
  /\ pc = "done"
  /\ ~HasLine(DecoratorKeys)
  /\ \A n \in DOMAIN file : IsDefinitionKey(file[n]) => IsPrefixedDefinition(file[n])
  /\ Len(tasks) >= 2
  /\ tasks[1].label = NameTaskA
  /\ tasks[2].label = NameTaskB
  /\ tasks[1].lineNumber > tasks[2].lineNumber

(***************************************************************************)
(* C9.  The sort step leaves the items ordered by name under the locale    *)
(* comparison (every adjacent pair compares <= 0) and only reorders them:  *)
(* every item occurs after the sort as often as before it.                 *)
(***************************************************************************)
Occurrences(ts, x) == Cardinality({ k \in DOMAIN ts : ts[k] = x })

IsPermutation(ts, us) ==
  /\ Len(ts) = Len(us)
  /\ \A k \in DOMAIN us : Occurrences(ts, us[k]) = Occurrences(us, us[k])

C9_SortedPermutation ==
  [][ (pc = "loop" /\ pc' = "done")
      => /\ \A k \in 1..(Len(tasks') - 1) :
              localeCompare(tasks'[k].label, tasks'[k + 1].label) <= 0
         /\ IsPermutation(tasks', tasks) ]_vars

\* Two definitions of task_a, both below a definition of task_b: both
\* items are returned, ahead of the item of task_b.
C9_Witness ==
  /\ pc = "done"
  /\ Len(tasks) = 3
  /\ tasks[1].label = tasks[2].label
  /\ tasks[1].lineNumber # tasks[2].lineNumber
  /\ tasks[3].lineNumber < tasks[1].lineNumber

(***************************************************************************)
(* C10.  Every item carries the 1-based number of a line of the scanned    *)
(* content, and that line is the definition of the function the item       *)
(* names, not the decorator line above it.                                 *)
(***************************************************************************)
C10_LineNumbers ==
  pc \in {"loop", "done"} =>
    /\ Len(lines) = Len(file)
    /\ \A k \in DOMAIN tasks :
         /\ tasks[k].lineNumber >= 1
         /\ tasks[k].lineNumber <= Len(lines)
         /\ IsDefinitionKey(file[tasks[k].lineNumber])
         /\ DefinedName(file[tasks[k].lineNumber]) = tasks[k].label

\* foo, made a task by the decorator on the line above it, is reported at
\* its own line.
C10_Witness ==
  /\ pc = "done"
  /\ \E k \in DOMAIN tasks :
       /\ tasks[k].label = NameFoo
       /\ tasks[k].lineNumber >= 3
       /\ file[tasks[k].lineNumber - 1] \in DecoratorKeys

(***************************************************************************)
(* C11: detection of the from-import does not depend on the layout of the  *)
(* name list.  For a file that opens with a parenthesized multi-line       *)
(* import: when the list holds the name task (first, middle or last, with  *)
(* or without "as" on it), the pre-scan detects the import; and the        *)
(* multi-line list is detected exactly when the same list on one line is,  *)
(* with and without the parentheses.                                       *)
(***************************************************************************)
\* The names of the import list of a file of ImportFiles, as catalogue lines.
ImportNamesOf(f) == SubSeq(f, 2, Len(f) - 3)

MarkerItemLines == { "  task,", "  task as t," }

\* An item as it is written inside a one-line list: no indentation and no
\* trailing comma.
ItemChars(k) ==
  LET t == trim(LineChars[k]) IN SubSeq(t, 1, Len(t) - 1)

RECURSIVE JoinItems(_, _)
JoinItems(names, k) ==
  IF k > Len(names) THEN << >>
  ELSE IF k = Len(names) THEN ItemChars(names[k])
  ELSE ItemChars(names[k]) \o <<",", " ">> \o JoinItems(names, k + 1)

LitFromPytaskImport == LitFrom \o <<" ">> \o LitPytask \o <<" ">> \o LitImport \o <<" ">>

OneLineOf(f) == LitFromPytaskImport \o JoinItems(ImportNamesOf(f), 1)

OneLineParenthesizedOf(f) ==
  LitFromPytaskImport \o <<"(">> \o JoinItems(ImportNamesOf(f), 1) \o <<")">>

ListHoldsMarker(f) ==
  \E k \in DOMAIN ImportNamesOf(f) : ImportNamesOf(f)[k] \in MarkerItemLines

C11_LayoutIndependent ==
  (pc # "call" /\ file \in ImportFiles) =>
     /\ ListHoldsMarker(file) => hasTaskImport
     /\ hasTaskImport <=> fromPytaskImport(OneLineOf(file)).found
     /\ hasTaskImport <=> fromPytaskImport(OneLineParenthesizedOf(file)).found

(***************************************************************************)
(* What a returned tree holds, read off the tree alone.                    *)
(***************************************************************************)
\* The workspace has exactly one folder.
SingleRoot == workspaceFolders.defined /\ Len(workspaceFolders.folders) = 1

\* Query q has returned and no file changed while it ran.
ReturnedQuietly(q) == queries[q].pc = "returned" /\ queries[q].quiet

\* The positions in a list of nodes that hold the module of file p.
ModulePositions(nodes, p) ==
  { m \in DOMAIN nodes : nodes[m].kind = "module" /\ nodes[m].path = p }

(***************************************************************************)
(* C12: in a workspace with one root whose enumerated files all lie        *)
(* directly at that root, the root query returns exactly one module per    *)
(* enumerated file, labelled with the file name; getChildren(module)       *)
(* returns exactly the items findTaskFunctions yields for the file's       *)
(* content; a file without tasks has its module, with no children.         *)
(***************************************************************************)
AllAtRoot(q) ==
  \A n \in DOMAIN queries[q].taskFiles :
    Len(queries[q].taskFiles[n]) = Len(workspaceFolders.folders[1]) + 1

C12_RootFiles ==
  \A q \in DOMAIN queries :
    (ReturnedQuietly(q) /\ SingleRoot /\ AllAtRoot(q)) =>
      LET call == queries[q]
      IN /\ Len(call.result) = Len(call.taskFiles)
         /\ \A n \in DOMAIN call.result : call.result[n].kind = "module"
         /\ \A n \in DOMAIN call.taskFiles :
              LET p == call.taskFiles[n]
                  at == ModulePositions(call.result, p)
              IN /\ Cardinality(at) = 1
                 /\ \A m \in at :
                      /\ call.result[m].label = basename(p)
                      /\ getChildrenOf(call.result[m]) =
                           findTaskFunctions(ContentOf(Sources[disk[p]]))
                      /\ disk[p] = "none" => getChildrenOf(call.result[m]) = << >>

\* A returned query over two files at the root, one of them without tasks
\* and one with two.
C12_Witness ==
  \E q \in DOMAIN queries :
    /\ ReturnedQuietly(q) /\ SingleRoot /\ AllAtRoot(q)
    /\ Len(queries[q].taskFiles) = 2
    /\ Len(queries[q].result) = 2
    /\ \E m, n \in DOMAIN queries[q].taskFiles :
         /\ disk[queries[q].taskFiles[m]] = "none"
         /\ disk[queries[q].taskFiles[n]] = "two"
    /\ \E m \in DOMAIN queries[q].result : Len(queries[q].result[m].children) = 2

\* The workspace folder that holds file p, and p's directory relative to it.
OwnRoot(p) ==
  workspaceFolders.folders[CHOOSE n \in DOMAIN workspaceFolders.folders :
                             IsPathPrefix(workspaceFolders.folders[n], p)]

RelativeDir(p) == SubSeq(p, Len(OwnRoot(p)) + 1, Len(p) - 1)

\* The module of file p is reached from the list of nodes through a chain of
\* folders labelled with the segments segs, in order.
RECURSIVE HasModuleBelow(_, _, _)
HasModuleBelow(nodes, segs, p) ==
  IF segs = << >>
  THEN ModulePositions(nodes, p) # {}
  ELSE \E n \in DOMAIN nodes :
         /\ nodes[n].kind = "folder"
         /\ nodes[n].label = Head(segs)
         /\ HasModuleBelow(nodes[n].children, Tail(segs), p)

(***************************************************************************)
(* C13: folder grouping at any depth.  In a workspace with one root, after *)
(* buildFileTree every enumerated file has a module that is reached from   *)
(* the root list through a chain of folders, one for each segment of the   *)
(* file's directory relative to the root, in order; a file directly at the *)
(* root has its module in the root list.  No enumerated file is missing.   *)
(***************************************************************************)
C13_FolderGrouping ==
  \A q \in DOMAIN queries :
    (ReturnedQuietly(q) /\ SingleRoot) =>
      \A n \in DOMAIN queries[q].taskFiles :
        HasModuleBelow(queries[q].result, RelativeDir(queries[q].taskFiles[n]),
                       queries[q].taskFiles[n])

\* The number of folder nodes with folderPath fp among nodes[k], nodes[k+1],
\* ... and everything below them.
RECURSIVE FoldersAt(_, _, _)
FoldersAt(nodes, k, fp) ==
  IF k > Len(nodes) THEN 0
  ELSE (IF nodes[k].kind = "folder"
        THEN (IF nodes[k].path = fp THEN 1 ELSE 0) + FoldersAt(nodes[k].children, 1, fp)
        ELSE 0)
       + FoldersAt(nodes, k + 1, fp)

\* The modules of files p1 and p2 are children of one folder node that is
\* reached through the chain of folders segs.
RECURSIVE ShareFolder(_, _, _, _)
ShareFolder(nodes, segs, p1, p2) ==
  \E n \in DOMAIN nodes :
    /\ nodes[n].kind = "folder"
    /\ nodes[n].label = Head(segs)
    /\ IF Len(segs) = 1
       THEN /\ ModulePositions(nodes[n].children, p1) # {}
            /\ ModulePositions(nodes[n].children, p2) # {}
       ELSE ShareFolder(nodes[n].children, Tail(segs), p1, p2)

\* Every module that is the child of a folder node is the module of a file
\* stored directly in that folder's directory.
RECURSIVE OnlyOwnFiles(_)
OnlyOwnFiles(nodes) ==
  \A n \in DOMAIN nodes :
    nodes[n].kind = "folder" =>
      /\ \A m \in DOMAIN nodes[n].children :
           nodes[n].children[m].kind = "module" =>
             SubSeq(nodes[n].children[m].path, 1, Len(nodes[n].children[m].path) - 1)
               = nodes[n].path
      /\ OnlyOwnFiles(nodes[n].children)

\* The directories, relative to the root, that are ancestors of an
\* enumerated file of query q.
AncestorDirs(q) ==
  UNION { { SubSeq(RelativeDir(queries[q].taskFiles[n]), 1, j) :
              j \in 1..Len(RelativeDir(queries[q].taskFiles[n])) } :
          n \in DOMAIN queries[q].taskFiles }

(***************************************************************************)
(* C14: folder nodes are created once and re-used.  In a tree built for a  *)
(* workspace with one root there is exactly one folder node for every      *)
(* relative directory that is an ancestor of an enumerated file; two files *)
(* of one directory are children of the same folder node; and directories  *)
(* with the same leaf name under different parents have their own folder   *)
(* nodes, each holding only the files of its directory.                    *)
(***************************************************************************)
C14_OneFolderPerDirectory ==
  \A q \in DOMAIN queries :
    (ReturnedQuietly(q) /\ SingleRoot) =>
      LET call == queries[q]
      IN /\ \A d \in AncestorDirs(q) :
              FoldersAt(call.result, 1, join(workspaceFolders.folders[1], d)) = 1
         /\ \A m, n \in DOMAIN call.taskFiles :
              (/\ RelativeDir(call.taskFiles[m]) = RelativeDir(call.taskFiles[n])
               /\ RelativeDir(call.taskFiles[m]) # << >>) =>
                ShareFolder(call.result, RelativeDir(call.taskFiles[m]),
                            call.taskFiles[m], call.taskFiles[n])
         /\ OnlyOwnFiles(call.result)

\* The labels of folders and modules in alphabetical order.
LabelOrder == << "..", "a", "b", "task_a.py", "task_b.py" >>

LabelRank(label) == CHOOSE r \in DOMAIN LabelOrder : LabelOrder[r] = label

\* Node x may stand before node y in a sorted list: not a module before a
\* folder, and two nodes of one kind in the order of their labels.
MayPrecede(x, y) ==
  /\ ~(x.kind = "module" /\ y.kind = "folder")
  /\ x.kind = y.kind => LabelRank(x.label) <= LabelRank(y.label)

\* The task items are in the order of their names.
TasksOrdered(ts) ==
  \A m, n \in DOMAIN ts : m < n => ~NameBefore(ts[n].label, ts[m].label)

\* The list of nodes is sorted, and so is every list below it.
RECURSIVE OrderedBelow(_)
OrderedBelow(nodes) ==
  /\ \A m, n \in DOMAIN nodes : m < n => MayPrecede(nodes[m], nodes[n])
  /\ \A n \in DOMAIN nodes :
       IF nodes[n].kind = "folder"
       THEN OrderedBelow(nodes[n].children)
       ELSE TasksOrdered(nodes[n].children)

(***************************************************************************)
(* C15: the returned tree is ordered at every level.  In the root list and *)
(* in the children of every folder, all folders stand before all modules   *)
(* and nodes of one kind are in alphabetical order of their labels; the    *)
(* children of every module are in alphabetical order of the task names.   *)
(* This holds for every order in which findFiles returns the files.        *)
(***************************************************************************)
C15_OrderedAtEveryLevel ==
  \A q \in DOMAIN queries :
    ReturnedQuietly(q) => OrderedBelow(queries[q].result)

\* The number of module nodes among nodes[k], nodes[k+1], ... and below.
RECURSIVE ModulesIn(_, _)
ModulesIn(nodes, k) ==
  IF k > Len(nodes) THEN 0
  ELSE (IF nodes[k].kind = "module" THEN 1 ELSE ModulesIn(nodes[k].children, 1))
       + ModulesIn(nodes, k + 1)

SeveralRoots == workspaceFolders.defined /\ Len(workspaceFolders.folders) > 1

\* Every enumerated file of query q lies at its root or one directory below.
AllShallow(q) ==
  \A n \in DOMAIN queries[q].taskFiles :
    Len(RelativeDir(queries[q].taskFiles[n])) <= 1

(***************************************************************************)
(* C16: with several workspace roots, every enumerated file of every root  *)
(* has its own module in the tree, grouped by its path relative to the     *)
(* root it belongs to, and the tree holds as many modules as there are     *)
(* enumerated files, also when two roots hold files with the same relative *)
(* path.  Stated for files at most one directory below their root.         *)
(***************************************************************************)
C16_SeveralRoots ==
  \A q \in DOMAIN queries :
    (ReturnedQuietly(q) /\ SeveralRoots /\ AllShallow(q)) =>
      /\ ModulesIn(queries[q].result, 1) = Len(queries[q].taskFiles)
      /\ \A n \in DOMAIN queries[q].taskFiles :
           HasModuleBelow(queries[q].result, RelativeDir(queries[q].taskFiles[n]),
                          queries[q].taskFiles[n])

\* The items of each source, written down by hand.
ExpectedItems ==
   ("none" :> << >>) @@
   ("one" :> << [label |-> NameTaskB, lineNumber |-> 1] >>) @@
   ("two" :> << [label |-> NameTaskA, lineNumber |-> 2],
                [label |-> NameTaskB, lineNumber |-> 1] >>)

\* Every module in the list of nodes and below it shows a file that is on
\* disk now, with the items of the file's present content.
RECURSIVE AllCurrent(_)
AllCurrent(nodes) ==
  \A n \in DOMAIN nodes :
    IF nodes[n].kind = "module"
    THEN /\ disk[nodes[n].path] # NoFile
         /\ nodes[n].children = ExpectedItems[disk[nodes[n].path]]
    ELSE AllCurrent(nodes[n].children)

\* The number of task items among nodes[k], nodes[k+1], ... and below.
RECURSIVE TaskItemsIn(_, _)
TaskItemsIn(nodes, k) ==
  IF k > Len(nodes) THEN 0
  ELSE (IF nodes[k].kind = "module" THEN Len(nodes[k].children)
        ELSE TaskItemsIn(nodes[k].children, 1))
       + TaskItemsIn(nodes, k + 1)

\* The tree a build from an empty rootItems returns for the files of order
\* and the contents now on disk.
RECURSIVE BuiltFrom(_, _, _)
BuiltFrom(order, k, rootItems) ==
  IF k > Len(order) THEN SortedResult(rootItems)
  ELSE BuiltFrom(order, k + 1,
                 FileLoopBody(rootItems, workspaceFolders.folders[1], order[k],
                              disk[order[k]]))

(***************************************************************************)
(* C17: freshness after change.  A root query that has returned, with no   *)
(* file created, changed or deleted since it started, holds a tree derived *)
(* from the files now on disk alone, whatever was created, changed or      *)
(* deleted before the query and whatever earlier queries returned: it is   *)
(* the tree of a build that starts from nothing on the present files;      *)
(* every module in it shows a file that exists, with the items of the      *)
(* file's present content, so no module of a deleted file is left; and a   *)
(* file at the root or one directory below it has its module, so a task    *)
(* appended to it is there.                                                *)
(***************************************************************************)
C17_FreshAfterChange ==
  \A q \in DOMAIN queries :
    (ReturnedQuietly(q) /\ workspaceFolders.defined) =>
      /\ \E order \in findFiles(disk, workspaceFolders) :
           queries[q].result = BuiltFrom(order, 1, << >>)
      /\ AllCurrent(queries[q].result)
      /\ SingleRoot =>
           \A p \in FilesOn(disk) :
             (InWorkspace(p, workspaceFolders) /\ Len(RelativeDir(p)) <= 1) =>
               HasModuleBelow(queries[q].result, RelativeDir(p), p)

\* An earlier query returned two modules of one task each; then one file was
\* deleted and a task was appended to the other; a later query, started
\* after both changes, has returned one module with two tasks.
C17_Witness ==
  \E q1, q2 \in DOMAIN queries :
    /\ q1 < q2
    /\ SingleRoot
    /\ queries[q1].pc = "returned" /\ ~queries[q1].quiet
    /\ ModulesIn(queries[q1].result, 1) = 2
    /\ TaskItemsIn(queries[q1].result, 1) = 2
    /\ changes = 2
    /\ \E p1, p2 \in WatchPaths : disk[p1] = NoFile /\ disk[p2] = "two"
    /\ ReturnedQuietly(q2)
    /\ ModulesIn(queries[q2].result, 1) = 1
    /\ TaskItemsIn(queries[q2].result, 1) = 2

(***************************************************************************)
(* C18: the refresh protocol.  Every step that delivers a created, changed *)
(* or deleted event of the watcher, and every run of the refresh command,  *)
(* fires exactly one notification and does nothing else: no query starts   *)
(* or advances, no file is enumerated or read.  No other step fires a      *)
(* notification; the scan runs only in the steps of a root query.          *)
(***************************************************************************)
C18_RefreshProtocol ==
  [][ LET delivered == Len(pending') < Len(pending)
          commanded == commands' # commands
      IN /\ (delivered \/ commanded) =>
              /\ fired' = fired + 1
              /\ ~(delivered /\ commanded)
              /\ delivered => pending' = Tail(pending)
              /\ UNCHANGED << queries, disk, workspaceFolders, changes >>
         /\ ~(delivered \/ commanded) => fired' = fired ]_vars

\* Two changes were made and their events delivered, the command ran once,
\* and three notifications were fired; the one query has not been started.
C18_Witness ==
  /\ SingleRoot
  /\ changes = 2
  /\ commands = 1
  /\ pending = << >>
  /\ fired = 3
  /\ \A q \in DOMAIN queries : queries[q].pc = "idle"

(***************************************************************************)
(* C19: a read failure of one file is isolated.  When an enumerated file   *)
(* cannot be read because it was deleted after the enumeration, the build  *)
(* skips it: no root query fails.                                          *)
(***************************************************************************)
C19_ReadFailureIsolated ==
  \A q \in DOMAIN queries : queries[q].pc # "failed"

(***************************************************************************)
(* C20: the empty workspace.  A root query made without workspace folders  *)
(* (the list absent or empty), or whose enumeration finds no file, does    *)
(* not fail and returns the empty list.                                    *)
(***************************************************************************)
C20_EmptyWorkspace ==
  \A q \in DOMAIN queries :
    (/\ queries[q].pc \in {"returned", "failed"}
     /\ \/ ~workspaceFolders.defined
        \/ workspaceFolders.folders = << >>
        \/ queries[q].taskFiles = << >>) =>
      /\ queries[q].pc = "returned"
      /\ queries[q].result = << >>

\* A root with no file left in it after a deletion: the query has run the
\* enumeration, found nothing, and returned the empty list.
C20_Witness ==
  \E q \in DOMAIN queries :
    /\ SingleRoot
    /\ changes > 0
    /\ FilesOn(disk) = {}
    /\ ReturnedQuietly(q)
    /\ queries[q].taskFiles = << >>
    /\ queries[q].result = << >>

(***************************************************************************)
(* C21.  A decorator applies to at most one definition.  When the loop has *)
(* just processed a function-definition line, the flag is false, whether   *)
(* the line was emitted or not and whether a decorator stood above it or   *)
(* not.  And when the scan has returned: of two definitions below one      *)
(* marker decorator line, with no decorator line between that line and the *)
(* second definition, the second has an item only if its own name starts   *)
(* with task_.                                                             *)
(***************************************************************************)
\* No decorator line stands strictly between the lines d and n.
NoDecoratorBetween(d, n) ==
  \A m \in (d + 1)..(n - 1) : file[m] \notin DecoratorKeys

C21_OneDefinitionPerDecorator ==
  /\ \A n \in DOMAIN file :
       (JustProcessed(n) /\ IsDefinitionKey(file[n])) => ~isDecorated
  /\ pc = "done" =>
       \A d, n1, n2 \in DOMAIN file :
         ( /\ d < n1
           /\ n1 < n2
           /\ file[d] \in DecoratorKeys
           /\ MarkerUnderImports(file[d])
           /\ IsDefinitionKey(file[n1])
           /\ IsDefinitionKey(file[n2])
           /\ NoDecoratorBetween(d, n2) )
         => (Emitted(n2) => IsPrefixedDefinition(file[n2]))

\* Under a detected from-import, @task stands above two definitions of foo:
\* the first has its item, the second has none.
C21_Witness ==
  /\ pc = "done"
  /\ hasTaskImport
  /\ \E d, n1, n2 \in DOMAIN file :
       /\ d < n1
       /\ n1 < n2
       /\ file[d] = "@task"
       /\ MarkerUnderImports(file[d])
       /\ DefinedName(file[n1]) = NameFoo
       /\ DefinedName(file[n2]) = NameFoo
       /\ NoDecoratorBetween(d, n2)
       /\ Emitted(n1)
       /\ ~Emitted(n2)

(***************************************************************************)
(* C22.  Stacked decorators: the last decorator line decides.  When the    *)
(* scan has returned, a definition that stands directly below a stack of   *)
(* two or more decorator lines has an item if and only if its name starts  *)
(* with task_ or the last line of the stack is the marker under the        *)
(* detected imports, whatever the lines above it in the stack are.  So a   *)
(* decorator that is not the marker, then @task, then def foo( gives foo   *)
(* an item, and @task, then a decorator that is not the marker, then       *)
(* def foo( gives it none.                                                 *)
(***************************************************************************)
C22_LastDecoratorDecides ==
  pc = "done" =>
    \A n \in DOMAIN file :
      ( /\ n >= 3
        /\ IsDefinitionKey(file[n])
        /\ file[n - 1] \in DecoratorKeys
        /\ file[n - 2] \in DecoratorKeys )
      => ( Emitted(n) <=>
             (IsPrefixedDefinition(file[n]) \/ MarkerUnderImports(file[n - 1])) )

\* Under a detected from-import, @task stands above @task(), which is not
\* the marker, and foo below the two has no item.
C22_Witness ==
  /\ pc = "done"
  /\ hasTaskImport
  /\ \E n \in DOMAIN file :
       /\ n >= 3
       /\ file[n - 2] = "@task"
       /\ MarkerUnderImports(file[n - 2])
       /\ file[n - 1] = "@task()"
       /\ ~MarkerUnderImports(file[n - 1])
       /\ DefinedName(file[n]) = NameFoo
       /\ ~Emitted(n)

(***************************************************************************)
(* C23.  A line that neither starts with @ nor matches the definition      *)
(* pattern (a blank line, a comment, a class header, an async def header,  *)
(* the closing line of a decorator call written over several lines, an     *)
(* import statement) is passed by the loop with the flag and the items     *)
(* left as they are.  So when the scan returns, a definition below a       *)
(* marker decorator has an item whenever only such lines stand between the *)
(* two, however many they are and however far the definition is indented.  *)
(***************************************************************************)
\* The lines that are neither decorators nor matched by the pattern.
PassiveKeys ==
  { "", "# Missing imports", "class C:", "async def bar():", ")",
    "from pytask import task", "import pytask" }

OnlyPassiveBetween(d, n) ==
  \A m \in (d + 1)..(n - 1) : file[m] \in PassiveKeys

C23_FlagSurvivesOtherLines ==
  [][ /\ ( /\ pc = "loop"
           /\ i < Len(file)
           /\ i' = i + 1
           /\ file[i + 1] \in PassiveKeys )
         => (isDecorated' = isDecorated /\ tasks' = tasks)
      /\ pc' = "done" =>
           \A d, n \in DOMAIN file :
             ( /\ d < n
               /\ file[d] \in DecoratorKeys
               /\ MarkerUnderImports(file[d])'
               /\ OnlyPassiveBetween(d, n)
               /\ IsDefinitionKey(file[n]) )
             => Emitted(n)' ]_vars

\* Under a detected from-import, an async def header, a class header or a
\* comment stands between @task and the indented definition of foo, which
\* has its item.
C23_Witness ==
  /\ pc = "done"
  /\ hasTaskImport
  /\ \E d, n \in DOMAIN file :
       /\ d + 1 < n
       /\ file[d] = "@task"
       /\ MarkerUnderImports(file[d])
       /\ OnlyPassiveBetween(d, n)
       /\ \A m \in (d + 1)..(n - 1) : file[m] \in {"async def bar():", "class C:", "# Missing imports"}
       /\ file[n] = "    def foo(self):"
       /\ Emitted(n)

(***************************************************************************)
(* C24.  No empty folders: in every tree a root query has returned, every  *)
(* folder has at least one module among its descendants.                   *)
(***************************************************************************)
RECURSIVE HoldsModule(_)
HoldsModule(nodes) ==
  \E k \in DOMAIN nodes :
    \/ nodes[k].kind = "module"
    \/ nodes[k].kind = "folder" /\ HoldsModule(nodes[k].children)

RECURSIVE NoEmptyFolder(_)
NoEmptyFolder(nodes) ==
  \A k \in DOMAIN nodes :
    nodes[k].kind = "folder" =>
      (HoldsModule(nodes[k].children) /\ NoEmptyFolder(nodes[k].children))

C24_NoEmptyFolder ==
  \A q \in DOMAIN queries :
    queries[q].pc = "returned" => NoEmptyFolder(queries[q].result)

(***************************************************************************)
(* C25.  Root queries are not serialized.  While a root query is awaiting  *)
(* findFiles (and no loop is running in the extension's thread) the host   *)
(* can start the next one, so builds overlap; every                        *)
(* returned tree holds one module for each file of the query's own         *)
(* enumeration, whatever is on disk when it returns; and the host shows    *)
(* the result it received last.  The state in which the query that started *)
(* first returns last, with a tree that is not the tree of the files now   *)
(* on disk, is therefore reachable after the last file change.             *)
(***************************************************************************)
InFlight(q) == queries[q].pc \in {"findFiles", "found", "loop"}

\* The trees a build from nothing returns for the files now on disk.
IsTreeOfDisk(tree) ==
  \E order \in findFiles(disk, workspaceFolders) : tree = BuiltFrom(order, 1, << >>)

C25_BuildsOverlap ==
  /\ \A q \in DOMAIN queries :
       ( /\ q > 1
         /\ queries[q].pc = "idle"
         /\ queries[q - 1].pc \in {"findFiles", "found"}
         /\ ~InLoop )
       => ENABLED CallFindFiles
  /\ \A q \in DOMAIN queries :
       queries[q].pc = "returned" =>
         /\ ModulesIn(queries[q].result, 1) = Len(queries[q].taskFiles)
         /\ queries[q].received > 0
         /\ queries[q].received = Delivered => Shown = queries[q].result

\* A file was created while the first query was in flight, its event was
\* delivered, and nothing is left to do: the second query has returned the
\* tree of the files now on disk, the first query has returned after it with
\* the tree of its older enumeration, and that is the tree the host shows.
C25_Witness ==
  /\ changes > 0
  /\ pending = << >>
  /\ fired > 0
  /\ \A q \in DOMAIN queries : queries[q].pc = "returned"
  /\ \E q1, q2 \in DOMAIN queries :
       /\ q1 < q2
       /\ queries[q1].received = Delivered
       /\ queries[q2].received < queries[q1].received
       /\ IsTreeOfDisk(queries[q2].result)
       /\ ~IsTreeOfDisk(queries[q1].result)
       /\ Shown = queries[q1].result
  /\ ~IsTreeOfDisk(Shown)

(***************************************************************************)
(* C26.  A root query builds its tree in state of its own, whatever the    *)
(* interleaving of overlapping root queries, created files, delivered      *)
(* events and refresh commands.  In every state the local state of every   *)
(* query is the one a build running alone reaches on the files the query   *)
(* has enumerated (nothing before the loop, the loop's items over the      *)
(* files processed so far, and on return the sorted items over all of      *)
(* them), with no result before the query returns.  And a step that        *)
(* changes the local state of one query changes that of no other query     *)
(* and leaves the disk, the workspace, the watcher's undelivered events    *)
(* and the notifications fired as they are.                                *)
(***************************************************************************)
\* The rootItems of a build from nothing after the first k files of order.
RECURSIVE LoopedOver(_, _)
LoopedOver(order, k) ==
  IF k = 0 THEN << >>
  ELSE FileLoopBody(LoopedOver(order, k - 1), workspaceFolders.folders[1],
                    order[k], disk[order[k]])

\* The local variables of call q, without the note of changes on disk.
LocalsOf(q) == [queries[q] EXCEPT !.quiet = TRUE]

BuiltAlone(q) ==
  LET call == queries[q]
  IN /\ call.pc = "idle" => call = NotCalled
     /\ call.pc = "findFiles" => (call.taskFiles = << >> /\ call.rootItems = << >>)
     /\ call.pc = "found" => call.rootItems = << >>
     /\ call.pc = "loop" => call.rootItems = LoopedOver(call.taskFiles, call.k)
     /\ call.pc = "returned" =>
          /\ call.rootItems = LoopedOver(call.taskFiles, Len(call.taskFiles))
          /\ call.result = SortedResult(call.rootItems)
     /\ call.pc # "returned" => (call.result = << >> /\ call.received = 0)

C26_QueryLocalState ==
  /\ [](\A q \in DOMAIN queries : BuiltAlone(q))
  /\ [][ \A q \in DOMAIN queries :
           LocalsOf(q)' # LocalsOf(q) =>
             /\ \A o \in DOMAIN queries \ {q} : LocalsOf(o)' = LocalsOf(o)
             /\ UNCHANGED << disk, workspaceFolders, pending, fired >> ]_vars

\* The second query has returned a tree while the first, started before it,
\* is in the middle of its loop with one of its two files processed; an
\* event has been delivered in between.
C26_Witness ==
  /\ fired > 0
  /\ \E q1, q2 \in DOMAIN queries :
       /\ q1 < q2
       /\ queries[q1].pc = "loop"
       /\ queries[q1].k = 1
       /\ Len(queries[q1].taskFiles) = 2
       /\ queries[q1].rootItems # << >>
       /\ queries[q2].pc = "returned"
       /\ queries[q2].result # << >>
       /\ queries[q2].taskFiles # queries[q1].taskFiles

====
